---- MODULE Spec2Model ----
(***************************************************************************)
(* Happy English: the session state of the App component and the decoding  *)
(* of the correction service's response.                                    *)
(*                                                                         *)
(* The repository holds two variants of App:                               *)
(*   "labeled"    src/src/App.tsx       free text with three literal       *)
(*                                      markers, matched by three regexes  *)
(*   "structured" src/unnamed/part_000  JSON validated by a zod schema     *)
(* The variant is fixed when the application is built (mode).              *)
(*                                                                         *)
(* Strings are sequences of tokens.  A token is one whitespace character,  *)
(* one other character, one of the three marker literals, or one of the    *)
(* fixed placeholder phrases.  No marker is a substring of another marker  *)
(* or overlaps itself, so a marker behaves as one token under the regexes. *)
(***************************************************************************)
EXTENDS Integers, Sequences, FiniteSets

VARIABLES
    mode,            \* which variant of App is running
    mounted,         \* the startup useEffect has run
    storage,         \* localStorage: the values held under 'gemini_api_key' ({} = absent)
    apiKey,          \* useState apiKey
    showSettings,    \* useState showSettings
    tempApiKey,      \* useState tempApiKey
    inputText,       \* useState inputText
    result,          \* useState result (null or a record)
    loading,         \* useState loading
    error,           \* useState error
    simpleView,      \* useState simpleView
    inFlight,        \* generateContent calls issued and not yet settled
    clipboardReads,  \* navigator.clipboard.readText() promises not yet settled
    response,        \* how the most recent generateContent call settled
    calls            \* generateContent calls issued since the page loaded

vars == <<mode, mounted, storage, apiKey, showSettings, tempApiKey, inputText,
          result, loading, error, simpleView, inFlight, clipboardReads, response,
          calls>>

----------------------------------------------------------------------------
(* Bounds *)

MaxInFlight == 2
MaxCalls == 2
MaxClipboardReads == 1
MaxTextLen == 5
MaxLiteralLen == 1

----------------------------------------------------------------------------
(* Strings *)

WhiteSpace == {" ", "\n"}

Min(S) == CHOOSE x \in S : \A y \in S : x <= y
Max(S) == CHOOSE x \in S : \A y \in S : x >= y

\* String.prototype.trim
trim(s) ==
    LET solid == {i \in 1..Len(s) : s[i] \notin WhiteSpace}
    IN  IF solid = {} THEN <<>> ELSE SubSeq(s, Min(solid), Max(solid))

SeqsUpTo(S, n) == UNION {[1..k -> S] : k \in 0..n}

----------------------------------------------------------------------------
(* JavaScript values held in result and produced by JSON.parse *)

null == [type |-> "null"]
Str(s) == [type |-> "string", value |-> s]
Num == [type |-> "number"]
Arr == [type |-> "array"]
Obj(props) == [type |-> "object", props |-> props]
undefined == [type |-> "undefined"]

Fields == {"correctedText", "wordUsage", "explanation"}

----------------------------------------------------------------------------
(* User-facing messages *)

EnterTextMsg ==
    IF mode = "labeled" THEN "Please enter a sentence to correct."
                        ELSE "Please enter text to correct."
SetKeyMsg == "Please set your Google API key first."
FailedMsg == "Failed to get correction. Please check your API key and try again."
ClipboardMsg == "Failed to read clipboard. Please paste manually."

----------------------------------------------------------------------------
(* Labeled-section mode: the three regexes of src/src/App.tsx *)

CT == "CORRECTED_TEXT:"
WU == "WORD_USAGE:"
EX == "EXPLANATION:"

NoCorrection == <<"No correction found">>
NoWordUsage == <<"No word usage information found">>
NoExplanation == <<"No explanation found">>

\* First index >= from at which tok stands, 0 when there is none.
IndexOf(s, tok, from) ==
    LET at == {i \in from..Len(s) : s[i] = tok}
    IN  IF at = {} THEN 0 ELSE Min(at)

\* \s* is greedy and nothing after it can need a whitespace character back:
\* it ends at the first index >= from that holds no whitespace.
SkipWhiteSpace(s, from) ==
    LET at == {i \in from..Len(s) : s[i] \notin WhiteSpace}
    IN  IF at = {} THEN Len(s) + 1 ELSE Min(at)

NoMatch == [matched |-> FALSE, group |-> <<>>]

\* text.match(/marker\s*([\s\S]*?)(?=stop|$)/): the leftmost marker; the lazy
\* group ends at the first stop at or after the skipped whitespace, or at the
\* end of the text ($ without the m flag).
LazySection(text, marker, stop) ==
    LET m == IndexOf(text, marker, 1)
        p == SkipWhiteSpace(text, m + 1)
        q == IndexOf(text, stop, p)
        e == IF q = 0 THEN Len(text) + 1 ELSE q
    IN  IF m = 0 THEN NoMatch
        ELSE [matched |-> TRUE, group |-> SubSeq(text, p, e - 1)]

\* text.match(/marker\s*([\s\S]*)/): the greedy group runs to the end.
GreedySection(text, marker) ==
    LET m == IndexOf(text, marker, 1)
        p == SkipWhiteSpace(text, m + 1)
    IN  IF m = 0 THEN NoMatch
        ELSE [matched |-> TRUE, group |-> SubSeq(text, p, Len(text))]

\* correctedMatch with the lookahead of wordUsageMatch.
correctedMatch_stopsAtExplanation(text) == LazySection(text, CT, EX)
correctedMatch(text) == LazySection(text, CT, WU)

wordUsageMatch(text) == LazySection(text, WU, EX)

explanationMatch(text) == GreedySection(text, EX)

\* parseSections without the placeholder of a section that did not match.
parseSections_noFallback(text) ==
    [correctedText |-> IF correctedMatch(text).matched
                       THEN Str(trim(correctedMatch(text).group))
                       ELSE undefined,
     wordUsage     |-> IF wordUsageMatch(text).matched
                       THEN Str(trim(wordUsageMatch(text).group))
                       ELSE undefined,
     explanation   |-> IF explanationMatch(text).matched
                       THEN Str(trim(explanationMatch(text).group))
                       ELSE undefined]
\* The record handed to setResult.
parseSections(text) ==
    [correctedText |-> IF correctedMatch(text).matched
                       THEN Str(trim(correctedMatch(text).group))
                       ELSE Str(NoCorrection),
     wordUsage     |-> IF wordUsageMatch(text).matched
                       THEN Str(trim(wordUsageMatch(text).group))
                       ELSE Str(NoWordUsage),
     explanation   |-> IF explanationMatch(text).matched
                       THEN Str(trim(explanationMatch(text).group))
                       ELSE Str(NoExplanation)]

----------------------------------------------------------------------------
(* Structured mode: JSON.parse and the zod schema of src/unnamed/part_000 *)

(* A JSON text is '' (or an absent response.text), a text JSON.parse        *)
(* rejects, or a well-formed document.  A string literal of a document is   *)
(* a sequence of literal characters, among them the escape \n; an object    *)
(* is a function from its member names to documents (no duplicate names).   *)
EmptyText == [kind |-> "empty"]
Malformed == [kind |-> "malformed"]
Json(v) == [kind |-> "json", value |-> v]

JNumber == [type |-> "number"]
JNull == [type |-> "null"]
JArray == [type |-> "array"]
JString(lit) == [type |-> "string", literal |-> lit]
JObject(members) == [type |-> "object", members |-> members]

Escaped == "\\n"

\* JSON.parse of a string literal: every escape becomes the character it names.
Unescape(lit) == [i \in 1..Len(lit) |-> IF lit[i] = Escaped THEN "\n" ELSE lit[i]]

\* JSON.parse of a member value (the schema looks no deeper than that).
JSONparseValue(v) ==
    CASE v.type = "string" -> Str(Unescape(v.literal))
      [] v.type = "number" -> Num
      [] v.type = "null"   -> null
      [] v.type = "array"  -> Arr
      [] OTHER             -> Obj(<<>>)

\* JSON.parse of a well-formed document.
JSONparse(v) ==
    IF v.type = "object"
    THEN Obj([k \in DOMAIN v.members |-> JSONparseValue(v.members[k])])
    ELSE JSONparseValue(v)

\* The decoded object taken as it is, as a cast would.
correctionSchema_unchecked(value) ==
    [success |-> value.type = "object",
     data    |-> IF value.type = "object" THEN value.props ELSE <<>>]
\* The schema with .default('') on its three fields: an absent field is filled in.
correctionSchema_defaults(value) ==
    LET ok == /\ value.type = "object"
              /\ \A f \in Fields \cap DOMAIN value.props : value.props[f].type = "string"
    IN  [success |-> ok,
         data    |-> IF ok THEN [f \in Fields |-> IF f \in DOMAIN value.props
                                                  THEN value.props[f] ELSE Str(<<>>)]
                           ELSE <<>>]
\* The schema with z.string().trim() on its three fields.
correctionSchema_trims(value) ==
    LET ok == /\ value.type = "object"
              /\ \A f \in Fields : /\ f \in DOMAIN value.props
                                   /\ value.props[f].type = "string"
    IN  [success |-> ok,
         data    |-> IF ok THEN [f \in Fields |-> Str(trim(value.props[f].value))]
                           ELSE <<>>]
\* correctionSchema.parse(value): z.object of three z.string(); unknown keys
\* are stripped; success = FALSE stands for the ZodError it throws.
correctionSchema(value) ==
    LET ok == /\ value.type = "object"
              /\ \A f \in Fields : /\ f \in DOMAIN value.props
                                   /\ value.props[f].type = "string"
    IN  [success |-> ok,
         data    |-> IF ok THEN [f \in Fields |-> value.props[f]] ELSE <<>>]

----------------------------------------------------------------------------
(* The try block of handleCorrect from `const text = response.text || ''` *)
(* on: ok = FALSE stands for a throw, caught by the catch clause.         *)

Thrown == [ok |-> FALSE, result |-> null]

\* if (!text)
IsEmptyText(text) ==
    IF mode = "labeled" THEN Len(text) = 0 ELSE text.kind = "empty"

decodeResponse(text) ==
    IF IsEmptyText(text) THEN Thrown
    ELSE IF mode = "labeled"
    THEN [ok |-> TRUE, result |-> parseSections(text)]
    ELSE IF text.kind = "malformed" THEN Thrown
    ELSE LET parsed == correctionSchema(JSONparse(text.value))
         IN  IF parsed.success THEN [ok |-> TRUE, result |-> parsed.data]
             ELSE Thrown

----------------------------------------------------------------------------
(* Inputs *)

Modes == {"labeled", "structured"}

\* What localStorage may hold under 'gemini_api_key' when the page loads.
StoredAtLoad == {{}, {<<>>}, {<<" ">>}, {<<"k">>}}

\* What the user may type into the credential field.
TypedKeys == {<<>>, <<" ">>, <<" ", "a", "b", "c", " ">>}

\* What the user may type into, or the clipboard may put into, the text area.
TypedTexts == {<<>>, <<" ", "\n">>, <<"I", " ", "has">>}

Example == <<CT, "\n", "A", "\n", "\n", WU, "\n", "B", "\n", "\n", EX, "\n", "C">>

Tokens == {CT, WU, EX, "A", "\n"}

\* Responses of the remote model in labeled-section mode.
LabeledTexts == SeqsUpTo(Tokens, MaxTextLen) \cup {Example}

LabeledSamples ==
    {<<>>, <<"A">>, <<CT, "A", EX, "C">>, <<EX, "C", WU, "B">>, Example}

LiteralChars == {"A", Escaped}

MemberNames == Fields \cup {"note"}

MemberValues ==
    {JNumber, JNull} \cup {JString(l) : l \in SeqsUpTo(LiteralChars, MaxLiteralLen)}

JsonObjects == UNION {[D -> MemberValues] : D \in SUBSET MemberNames}

\* Responses of the remote model in structured mode.
JsonTexts ==
    {EmptyText, Malformed}
        \cup {Json(v) : v \in {JNumber, JNull, JArray, JString(<<"A">>)}}
        \cup {Json(JObject(m)) : m \in JsonObjects}

JsonSamples ==
    {EmptyText, Malformed, Json(JArray),
     Json(JObject([f \in Fields |-> JString(<<"A", Escaped>>)])),
     Json(JObject([f \in Fields |-> IF f = "wordUsage" THEN JString(<<>>)
                                                       ELSE JString(<<"A">>)])),
     Json(JObject([f \in Fields \ {"explanation"} |-> JString(<<"A">>)])),
     Json(JObject([f \in Fields |-> IF f = "explanation" THEN JNumber
                                                         ELSE JString(<<"A">>)]))}

Samples == IF mode = "labeled" THEN LabeledSamples ELSE JsonSamples
Responses == IF mode = "labeled" THEN LabeledTexts ELSE JsonTexts

----------------------------------------------------------------------------
(* The state after construction: the useState initial values *)

NotSent == [status |-> "none"]
Pending == [status |-> "pending"]
Rejected == [status |-> "rejected"]
Fulfilled(text) == [status |-> "fulfilled", text |-> text]

Init ==
    /\ mode \in Modes
    /\ mounted = FALSE
    /\ storage \in StoredAtLoad
    /\ apiKey = <<>>
    /\ showSettings = FALSE
    /\ tempApiKey = <<>>
    /\ inputText = <<>>
    /\ result = null
    /\ loading = FALSE
    /\ error = ""
    /\ simpleView = FALSE
    /\ inFlight = 0
    /\ clipboardReads = 0
    /\ response = NotSent
    /\ calls = 0

----------------------------------------------------------------------------
(* Startup and settings *)

\* useEffect(..., []): runs once, after the first render and before any event
\* handler.  getItem gives null when the key is absent; null and '' are falsy.
useEffectMount ==
    /\ ~mounted
    /\ mounted' = TRUE
    /\ IF \E savedApiKey \in storage : Len(savedApiKey) > 0
       THEN /\ apiKey' = CHOOSE savedApiKey \in storage : TRUE
            /\ UNCHANGED showSettings
       ELSE /\ showSettings' = TRUE
            /\ UNCHANGED apiKey
    /\ UNCHANGED <<calls, mode, storage, tempApiKey, inputText, result, loading, error,
                   simpleView, inFlight, clipboardReads, response>>

\* The header's Settings button.
openSettings ==
    /\ mounted
    /\ showSettings' = TRUE
    /\ UNCHANGED <<calls, mode, mounted, storage, apiKey, tempApiKey, inputText, result,
                   loading, error, simpleView, inFlight, clipboardReads, response>>

\* A click on the modal overlay: !apiKey && setShowSettings(false).
overlayClick ==
    /\ mounted
    /\ showSettings
    /\ Len(apiKey) = 0
    /\ showSettings' = FALSE
    /\ UNCHANGED <<calls, mode, mounted, storage, apiKey, tempApiKey, inputText, result,
                   loading, error, simpleView, inFlight, clipboardReads, response>>

\* The Cancel button, rendered only when a credential is set.
cancelSettings ==
    /\ mounted
    /\ showSettings
    /\ Len(apiKey) > 0
    /\ showSettings' = FALSE
    /\ UNCHANGED <<calls, mode, mounted, storage, apiKey, tempApiKey, inputText, result,
                   loading, error, simpleView, inFlight, clipboardReads, response>>

\* onChange of the credential field of the modal.
onChangeTempApiKey ==
    /\ mounted
    /\ showSettings
    /\ \E value \in TypedKeys : tempApiKey' = value
    /\ UNCHANGED <<calls, mode, mounted, storage, apiKey, showSettings, inputText, result,
                   loading, error, simpleView, inFlight, clipboardReads, response>>

\* handleSaveApiKey storing the pending value as typed.
handleSaveApiKey_untrimmed ==
    /\ mounted
    /\ showSettings
    /\ IF Len(trim(tempApiKey)) > 0
       THEN /\ storage' = {tempApiKey}
            /\ apiKey' = tempApiKey
            /\ showSettings' = FALSE
            /\ tempApiKey' = <<>>
       ELSE UNCHANGED <<storage, apiKey, showSettings, tempApiKey>>
    /\ UNCHANGED <<calls, mode, mounted, inputText, result, loading, error, simpleView,
                   inFlight, clipboardReads, response>>
\* handleSaveApiKey without its if: a blank pending value is saved too.
handleSaveApiKey_noGuard ==
    /\ mounted
    /\ showSettings
    /\ storage' = {trim(tempApiKey)}
    /\ apiKey' = trim(tempApiKey)
    /\ showSettings' = FALSE
    /\ tempApiKey' = <<>>
    /\ UNCHANGED <<calls, mode, mounted, inputText, result, loading, error, simpleView,
                   inFlight, clipboardReads, response>>
\* handleSaveApiKey without the localStorage.setItem call.
handleSaveApiKey_memoryOnly ==
    /\ mounted
    /\ showSettings
    /\ IF Len(trim(tempApiKey)) > 0
       THEN /\ apiKey' = trim(tempApiKey)
            /\ showSettings' = FALSE
            /\ tempApiKey' = <<>>
            /\ UNCHANGED storage
       ELSE UNCHANGED <<storage, apiKey, showSettings, tempApiKey>>
    /\ UNCHANGED <<calls, mode, mounted, inputText, result, loading, error, simpleView,
                   inFlight, clipboardReads, response>>
\* The Save button of the modal.
handleSaveApiKey ==
    /\ mounted
    /\ showSettings
    /\ IF Len(trim(tempApiKey)) > 0
       THEN /\ storage' = {trim(tempApiKey)}
            /\ apiKey' = trim(tempApiKey)
            /\ showSettings' = FALSE
            /\ tempApiKey' = <<>>
       ELSE UNCHANGED <<storage, apiKey, showSettings, tempApiKey>>
    /\ UNCHANGED <<calls, mode, mounted, inputText, result, loading, error, simpleView,
                   inFlight, clipboardReads, response>>

----------------------------------------------------------------------------
(* Input text and clipboard *)

\* onChange of the text area.
onChangeInputText ==
    /\ mounted
    /\ \E value \in TypedTexts : inputText' = value
    /\ UNCHANGED <<calls, mode, mounted, storage, apiKey, showSettings, tempApiKey, result,
                   loading, error, simpleView, inFlight, clipboardReads, response>>

\* The Paste button: handlePaste up to its await.
handlePaste ==
    /\ mounted
    /\ clipboardReads < MaxClipboardReads
    /\ clipboardReads' = clipboardReads + 1
    /\ UNCHANGED <<calls, mode, mounted, storage, apiKey, showSettings, tempApiKey,
                   inputText, result, loading, error, simpleView, inFlight, response>>

\* readText() fulfilled: setInputText(text).
readTextFulfilled ==
    /\ clipboardReads > 0
    /\ clipboardReads' = clipboardReads - 1
    /\ \E text \in TypedTexts : inputText' = text
    /\ UNCHANGED <<calls, mode, mounted, storage, apiKey, showSettings, tempApiKey, result,
                   loading, error, simpleView, inFlight, response>>

\* readText() rejected: the catch clause of handlePaste.
readTextRejected ==
    /\ clipboardReads > 0
    /\ clipboardReads' = clipboardReads - 1
    /\ error' = ClipboardMsg
    /\ UNCHANGED <<calls, mode, mounted, storage, apiKey, showSettings, tempApiKey,
                   inputText, result, loading, simpleView, inFlight, response>>

\* The checkbox handler also dropping the result it re-renders.
onChangeSimpleView_clearsResult ==
    /\ mounted
    /\ result # null
    /\ simpleView' = ~simpleView
    /\ result' = null
    /\ UNCHANGED <<calls, mode, mounted, storage, apiKey, showSettings, tempApiKey,
                   inputText, loading, error, inFlight, clipboardReads, response>>
\* The simple-view checkbox, rendered only while a result is shown.
onChangeSimpleView ==
    /\ mounted
    /\ result # null
    /\ simpleView' = ~simpleView
    /\ UNCHANGED <<calls, mode, mounted, storage, apiKey, showSettings, tempApiKey,
                   inputText, result, loading, error, inFlight, clipboardReads,
                   response>>

----------------------------------------------------------------------------
(* handleCorrect *)

\* The button without its disabled attribute.
correctBtnEnabled_always == TRUE
\* <button onClick={handleCorrect} disabled={loading}>
correctBtnEnabled == ~loading

\* The text check without trim().
inputRejected_emptyOnly == Len(inputText) = 0
\* if (!inputText.trim())
inputRejected == Len(trim(inputText)) = 0

\* handleCorrect without the credential check.
keyMissing_never == FALSE
\* if (!apiKey)
keyMissing == Len(apiKey) = 0

\* handleCorrect with setError('') and setResult(null) moved above its checks.
handleCorrect_resetsFirst ==
    /\ mounted
    /\ correctBtnEnabled
    /\ result' = null
    /\ IF inputRejected
       THEN /\ error' = EnterTextMsg
            /\ UNCHANGED <<showSettings, loading, inFlight, response, calls>>
       ELSE IF keyMissing
       THEN /\ showSettings' = TRUE
            /\ error' = SetKeyMsg
            /\ UNCHANGED <<loading, inFlight, response, calls>>
       ELSE /\ inFlight < MaxInFlight
            /\ calls < MaxCalls
            /\ calls' = calls + 1
            /\ loading' = TRUE
            /\ error' = ""
            /\ inFlight' = inFlight + 1
            /\ response' = Pending
            /\ UNCHANGED showSettings
    /\ UNCHANGED <<mode, mounted, storage, apiKey, tempApiKey, inputText, simpleView,
                   clipboardReads>>
\* The Correct Grammar button: handleCorrect up to its await.
handleCorrect ==
    /\ mounted
    /\ correctBtnEnabled
    /\ IF inputRejected
       THEN /\ error' = EnterTextMsg
            /\ UNCHANGED <<showSettings, loading, result, inFlight, response, calls>>
       ELSE IF keyMissing
       THEN /\ showSettings' = TRUE
            /\ error' = SetKeyMsg
            /\ UNCHANGED <<loading, result, inFlight, response, calls>>
       ELSE /\ inFlight < MaxInFlight
            /\ calls < MaxCalls
            /\ calls' = calls + 1
            /\ loading' = TRUE
            /\ error' = ""
            /\ result' = null
            /\ inFlight' = inFlight + 1
            /\ response' = Pending
            /\ UNCHANGED showSettings
    /\ UNCHANGED <<mode, mounted, storage, apiKey, tempApiKey, inputText, simpleView,
                   clipboardReads>>

\* The rejection handled without the finally clause.
generateContentRejected_noFinally ==
    /\ inFlight > 0
    /\ inFlight' = inFlight - 1
    /\ response' = Rejected
    /\ error' = FailedMsg
    /\ UNCHANGED <<calls, mode, mounted, storage, apiKey, showSettings, tempApiKey,
                   inputText, result, loading, simpleView, clipboardReads>>
\* The catch clause calling generateContent once more after a rejection.
generateContentRejected_retries ==
    /\ inFlight > 0
    /\ calls < MaxCalls
    /\ calls' = calls + 1
    /\ response' = Pending
    /\ error' = FailedMsg
    /\ UNCHANGED <<mode, mounted, storage, apiKey, showSettings, tempApiKey,
                   inputText, result, loading, simpleView, clipboardReads, inFlight>>
\* generateContent rejected (network, authentication, API error): the catch
\* and finally clauses of handleCorrect.
generateContentRejected ==
    /\ inFlight > 0
    /\ inFlight' = inFlight - 1
    /\ response' = Rejected
    /\ error' = FailedMsg
    /\ loading' = FALSE
    /\ UNCHANGED <<calls, mode, mounted, storage, apiKey, showSettings, tempApiKey,
                   inputText, result, simpleView, clipboardReads>>

\* generateContent fulfilled with one of texts: the rest of the try block, then
\* the catch clause if it threw, then the finally clause.
settleFulfilled(texts) ==
    /\ inFlight > 0
    /\ inFlight' = inFlight - 1
    /\ \E text \in texts :
          /\ response' = Fulfilled(text)
          /\ IF decodeResponse(text).ok
             THEN /\ result' = decodeResponse(text).result
                  /\ UNCHANGED error
             ELSE /\ error' = FailedMsg
                  /\ UNCHANGED result
    /\ loading' = FALSE
    /\ UNCHANGED <<calls, mode, mounted, storage, apiKey, showSettings, tempApiKey,
                   inputText, simpleView, clipboardReads>>

generateContentFulfilled == settleFulfilled(Samples)

generateContentFulfilledAny == settleFulfilled(Responses)

----------------------------------------------------------------------------
(* Specifications *)

Next ==
    \/ useEffectMount
    \/ openSettings
    \/ overlayClick
    \/ cancelSettings
    \/ onChangeTempApiKey
    \/ handleSaveApiKey
    \/ onChangeInputText
    \/ handlePaste
    \/ readTextFulfilled
    \/ readTextRejected
    \/ onChangeSimpleView
    \/ handleCorrect
    \/ generateContentRejected
    \/ generateContentFulfilled

Spec == Init /\ [][Next]_vars

(* The decoding of the response, over every response text within the bounds: *)
(* the session has a credential and a text to correct, and the user submits  *)
(* again after each response.                                               *)
ResponseInit ==
    /\ mode \in Modes
    /\ mounted = TRUE
    /\ storage = {<<"k">>}
    /\ apiKey = <<"k">>
    /\ showSettings = FALSE
    /\ tempApiKey = <<>>
    /\ inputText = <<"I", " ", "has">>
    /\ result = null
    /\ loading = FALSE
    /\ error = ""
    /\ simpleView = FALSE
    /\ inFlight = 0
    /\ clipboardReads = 0
    /\ response = NotSent
    /\ calls = 0

ResponseNext ==
    \/ handleCorrect
    \/ generateContentFulfilledAny

ResponseSpec == ResponseInit /\ [][ResponseNext]_vars

----------------------------------------------------------------------------
(* Vocabulary of the properties, stated apart from the operators above *)

Range(s) == {s[i] : i \in 1..Len(s)}

IsBlank(s) == \A i \in 1..Len(s) : s[i] \in WhiteSpace

\* t is s without its leading and trailing whitespace.
IsTrimOf(t, s) ==
    \E i, j \in 0..Len(s) :
        /\ i + j <= Len(s)
        /\ \A k \in 1..i : s[k] \in WhiteSpace
        /\ \A k \in (Len(s) - j + 1)..Len(s) : s[k] \in WhiteSpace
        /\ t = SubSeq(s, i + 1, Len(s) - j)
        /\ Len(t) > 0 => (t[1] \notin WhiteSpace /\ t[Len(t)] \notin WhiteSpace)

\* The segments of text that stand right after the first `marker` and end
\* before the next token of `stops`, or, when stopsAtEnd or when there are no
\* stops, at the end of text (there is at most one such segment).
Sections(text, marker, stops, stopsAtEnd) ==
    {SubSeq(text, m + 1, e) : <<m, e>> \in
        {me \in (1..Len(text)) \X (0..Len(text)) :
            /\ me[1] <= me[2]
            /\ text[me[1]] = marker
            /\ \A i \in 1..(me[1] - 1) : text[i] # marker
            /\ \A i \in (me[1] + 1)..me[2] : text[i] \notin stops
            /\ IF me[2] = Len(text) THEN stopsAtEnd \/ stops = {}
                                    ELSE text[me[2] + 1] \in stops}}

InCanonicalOrder(text) ==
    \E i, j, k \in 1..Len(text) :
        i < j /\ j < k /\ text[i] = CT /\ text[j] = WU /\ text[k] = EX

\* The request failed in the Correction Client: the call was rejected, or it
\* returned no text.
ClientFailed(r) ==
    \/ r.status = "rejected"
    \/ r.status = "fulfilled" /\ IsEmptyText(r.text)

----------------------------------------------------------------------------
(* C1: at most one correction request is in flight in every reachable state, *)
(* and one is in flight only while loading is true.                         *)
C1_AtMostOneInFlight ==
    /\ inFlight \in {0, 1}
    /\ inFlight = 1 => loading

C1_Witness == inFlight = 1 /\ loading /\ clipboardReads > 0 /\ showSettings

(* C2: a request that fails in the Correction Client (rejected, or no       *)
(* response text) ends with result null, the generic failure message and    *)
(* loading false; and loading is never true without a request in flight.    *)
C2_FailedRequestEndsInError ==
    /\ [](loading => inFlight > 0)
    /\ [][(inFlight' < inFlight /\ ClientFailed(response'))
            => (result' = null /\ error' = FailedMsg /\ loading' = FALSE)]_vars

C2_Witness ==
    /\ response.status = "fulfilled"
    /\ IsEmptyText(response.text)
    /\ result = null
    /\ error = FailedMsg
    /\ ~loading

(* C3: a submit with empty or whitespace-only input issues no remote call   *)
(* and sets the error to the "enter text" message.                          *)
C3_BlankInputNeverSent ==
    [][(handleCorrect /\ IsBlank(inputText))
        => (inFlight' = inFlight /\ response' = response /\ loading' = loading
            /\ error' = EnterTextMsg)]_vars

C3_Witness ==
    /\ Len(inputText) > 0
    /\ IsBlank(inputText)
    /\ Len(apiKey) > 0
    /\ error = EnterTextMsg
    /\ inFlight = 0

(* C4, as claimed: with no credential in memory, every submit opens the     *)
(* settings, sets the "set API key" message and issues no remote call.      *)
C4_Original ==
    [][(handleCorrect /\ Len(apiKey) = 0)
        => (showSettings' = TRUE /\ error' = SetKeyMsg /\ inFlight' = inFlight)]_vars

(* C4, amended: with no credential in memory a submit issues no remote      *)
(* call; with non-blank input it opens the settings and sets the "set API   *)
(* key" message; with blank input the text check comes first: the message   *)
(* is the "enter text" one and the settings are left as they are.           *)
C4_MissingCredential ==
    [][(handleCorrect /\ Len(apiKey) = 0)
        => /\ inFlight' = inFlight
           /\ response' = response
           /\ loading' = loading
           /\ IF IsBlank(inputText)
              THEN error' = EnterTextMsg /\ showSettings' = showSettings
              ELSE error' = SetKeyMsg /\ showSettings' = TRUE]_vars

C4_Witness ==
    /\ Len(apiKey) = 0
    /\ ~IsBlank(inputText)
    /\ error = SetKeyMsg
    /\ showSettings
    /\ inFlight = 0

(* C5: when a request completes successfully (result becomes non-null),     *)
(* loading becomes false and the error message is empty, whatever happened  *)
(* while the request was in flight.                                         *)
C5_SuccessClearsError ==
    [][(inFlight' < inFlight /\ result' # null)
        => (loading' = FALSE /\ error' = "")]_vars

(* C6: whenever a result exists, correctedText, wordUsage and explanation   *)
(* are all present and are strings; in labeled-section mode a field whose   *)
(* marker does not occur in the response text holds its fixed placeholder.  *)
Marker(f) ==
    CASE f = "correctedText" -> CT
      [] f = "wordUsage"     -> WU
      [] f = "explanation"   -> EX

Placeholder(f) ==
    CASE f = "correctedText" -> <<"No correction found">>
      [] f = "wordUsage"     -> <<"No word usage information found">>
      [] f = "explanation"   -> <<"No explanation found">>

C6_AllFieldsPresent ==
    result # null =>
        /\ DOMAIN result = Fields
        /\ \A f \in Fields : result[f].type = "string"
        /\ response.status = "fulfilled"
        /\ mode = "labeled" =>
              \A f \in Fields :
                  Marker(f) \notin Range(response.text)
                      => result[f] = Str(Placeholder(f))

C6_Witness ==
    /\ mode = "labeled"
    /\ result # null
    /\ result.correctedText = Str(<<"A">>)
    /\ result.wordUsage = Str(<<"No word usage information found">>)
    /\ result.explanation = Str(<<"No explanation found">>)

(* C7, as claimed: in structured mode every stored result has three         *)
(* non-empty string fields.                                                 *)
C7_Original ==
    (mode = "structured" /\ result # null) =>
        \A f \in Fields : result[f].type = "string" /\ Len(result[f].value) > 0

(* C7, amended: in structured mode every stored result has three string     *)
(* fields, each decoded from a string member of the response object; a      *)
(* response in which one of the three is missing or is not a string is      *)
(* never stored, while an empty string is accepted and stored as it is.     *)
C7_StringFields ==
    (mode = "structured" /\ result # null) =>
        /\ DOMAIN result = Fields
        /\ response.status = "fulfilled"
        /\ response.text.kind = "json"
        /\ response.text.value.type = "object"
        /\ \A f \in Fields :
              /\ result[f].type = "string"
              /\ f \in DOMAIN response.text.value.members
              /\ response.text.value.members[f].type = "string"
              /\ Len(response.text.value.members[f].literal) = Len(result[f].value)

C7_Witness ==
    /\ mode = "structured"
    /\ result # null
    /\ result.correctedText = Str(<<>>)
    /\ result.wordUsage = Str(<<"A">>)
    /\ result.explanation = Str(<<"\n">>)

(* C8: in labeled-section mode, for a response text without WORD_USAGE: but *)
(* with CORRECTED_TEXT: and/or EXPLANATION:, wordUsage is its placeholder   *)
(* and correctedText and explanation are each the trimmed content of their  *)
(* own section: correctedText ends before EXPLANATION: (or at the end of    *)
(* the text), explanation runs to the end of the text.                      *)
C8_MissingWordUsage ==
    (/\ mode = "labeled"
     /\ result # null
     /\ response.status = "fulfilled"
     /\ WU \notin Range(response.text)
     /\ {CT, EX} \cap Range(response.text) # {})
    => /\ result.wordUsage = Str(<<"No word usage information found">>)
       /\ CT \in Range(response.text) =>
             \E seg \in Sections(response.text, CT, {EX}, TRUE) :
                 IsTrimOf(result.correctedText.value, seg)
       /\ EX \in Range(response.text) =>
             \E seg \in Sections(response.text, EX, {}, TRUE) :
                 IsTrimOf(result.explanation.value, seg)

(* C9: in labeled-section mode, for a response text that contains the three *)
(* markers in canonical order, correctedText is the trimmed text between    *)
(* the first CORRECTED_TEXT: and the next WORD_USAGE:, wordUsage the        *)
(* trimmed text between the first WORD_USAGE: and the next EXPLANATION:,    *)
(* and explanation the trimmed text from the first EXPLANATION: to the end; *)
(* the example text parses to A, B, C.                                      *)
C9_CanonicalSections ==
    (/\ mode = "labeled"
     /\ result # null
     /\ response.status = "fulfilled"
     /\ InCanonicalOrder(response.text))
    => /\ \E seg \in Sections(response.text, CT, {WU}, FALSE) :
             IsTrimOf(result.correctedText.value, seg)
       /\ \E seg \in Sections(response.text, WU, {EX}, FALSE) :
             IsTrimOf(result.wordUsage.value, seg)
       /\ \E seg \in Sections(response.text, EX, {}, TRUE) :
             IsTrimOf(result.explanation.value, seg)
       /\ \A f \in Fields : result[f].type = "string"
       /\ response.text = Example =>
             result = [correctedText |-> Str(<<"A">>),
                       wordUsage     |-> Str(<<"B">>),
                       explanation   |-> Str(<<"C">>)]

C9_Witness ==
    /\ mode = "labeled"
    /\ response.status = "fulfilled"
    /\ response.text = Example
    /\ result = [correctedText |-> Str(<<"A">>),
                 wordUsage     |-> Str(<<"B">>),
                 explanation   |-> Str(<<"C">>)]

(* C10: a save with a pending credential whose trimmed value is non-empty   *)
(* leaves the trimmed value both under gemini_api_key and in memory, hides  *)
(* the settings panel and clears the pending credential.                    *)
C10_SaveTrims ==
    [][(handleSaveApiKey /\ ~IsBlank(tempApiKey))
        => \E t \in SeqsUpTo(Range(tempApiKey), Len(tempApiKey)) :
              /\ IsTrimOf(t, tempApiKey)
              /\ storage' = {t}
              /\ apiKey' = t
              /\ showSettings' = FALSE
              /\ tempApiKey' = <<>>]_vars

C10_Witness ==
    /\ storage = {<<"a", "b", "c">>}
    /\ apiKey = <<"a", "b", "c">>
    /\ ~showSettings
    /\ tempApiKey = <<>>

(* C11: a step that toggles simpleView changes nothing else: result,        *)
(* credential, loading, error message, input text and settingsVisible (and  *)
(* the store and the requests in flight) are as they were.                  *)
C11_ToggleOnlySimpleView ==
    [][(simpleView' # simpleView)
        => /\ result # null
           /\ UNCHANGED <<result, apiKey, loading, error, inputText, showSettings,
                          tempApiKey, storage, inFlight, response>>]_vars

C11_Witness ==
    /\ simpleView
    /\ result # null
    /\ error = ClipboardMsg
    /\ Len(apiKey) > 0

(* C12: in labeled-section mode every non-empty response text, whichever    *)
(* markers it holds, ends the request with a non-null result, an empty      *)
(* error message and loading false.                                         *)
C12_MissingMarkerIsSuccess ==
    [][(/\ mode = "labeled"
        /\ inFlight' < inFlight
        /\ response'.status = "fulfilled"
        /\ Len(response'.text) > 0)
        => (result' # null /\ error' = "" /\ loading' = FALSE)]_vars

(* C13: in structured mode a response that is not a JSON object with the    *)
(* three fields as strings (malformed JSON, not an object, a field missing  *)
(* or not a string) is never stored nor defaulted: the request ends with    *)
(* result null, the generic failure message and loading false.              *)
MatchesSchema(text) ==
    /\ text.kind = "json"
    /\ text.value.type = "object"
    /\ \A f \in Fields : /\ f \in DOMAIN text.value.members
                         /\ text.value.members[f].type = "string"

C13_UndecodableIsError ==
    [][(/\ mode = "structured"
        /\ inFlight' < inFlight
        /\ response'.status = "fulfilled"
        /\ ~MatchesSchema(response'.text))
        => (result' = null /\ error' = FailedMsg /\ loading' = FALSE)]_vars

C13_Witness ==
    /\ mode = "structured"
    /\ response.status = "fulfilled"
    /\ response.text.kind = "json"
    /\ response.text.value.type = "object"
    /\ DOMAIN response.text.value.members = {"correctedText", "wordUsage"}
    /\ \A f \in {"correctedText", "wordUsage"} :
          response.text.value.members[f] = JString(<<"A">>)
    /\ result = null
    /\ error = FailedMsg
    /\ ~loading

(* C14: remote calls are issued only by accepted submissions (non-blank     *)
(* text, non-empty credential, button enabled), one call each: every step   *)
(* that issues a call is such a submit and issues exactly one, every such   *)
(* submit issues one, and a step that settles a request issues none, so     *)
(* the number of calls equals the number of accepted submissions.           *)
C14_OneCallPerSubmission ==
    /\ [][(calls' # calls)
            => /\ calls' = calls + 1
               /\ inFlight = 0
               /\ inFlight' = 1
               /\ ~loading
               /\ ~IsBlank(inputText)
               /\ Len(apiKey) > 0
               /\ response' = Pending]_vars
    /\ [][(handleCorrect /\ ~IsBlank(inputText) /\ Len(apiKey) > 0)
            => calls' = calls + 1]_vars
    /\ [][(inFlight' < inFlight) => (calls' = calls /\ inFlight' = 0)]_vars

C14_Witness ==
    /\ calls = 1
    /\ response.status = "rejected"
    /\ inFlight = 0
    /\ ~loading
    /\ error = FailedMsg

(* C15: a submit with empty or whitespace-only text changes the error       *)
(* message and nothing else: result (a displayed result stays displayed),   *)
(* loading, credential, settingsVisible, simpleView and input text are      *)
(* unchanged, and no call is issued.                                        *)
C15_BlankSubmitFrame ==
    [][(handleCorrect /\ IsBlank(inputText))
        => UNCHANGED <<result, loading, apiKey, showSettings, simpleView, inputText,
                       tempApiKey, storage, inFlight, calls, response>>]_vars

C15_Witness ==
    /\ IsBlank(inputText)
    /\ error = EnterTextMsg
    /\ result # null
    /\ simpleView
    /\ ~showSettings
    /\ ~loading

(* C16: in structured mode, with non-blank input and a credential, a        *)
(* response object whose three fields are strings is stored, and each       *)
(* field of the result is the decoded value of that member as it is: the    *)
(* same characters, each escape replaced by the character it names, nothing *)
(* trimmed, defaulted or added (members outside the schema are dropped).    *)
IsDecodingOf(value, literal) ==
    /\ Len(value) = Len(literal)
    /\ \A i \in 1..Len(literal) :
          IF literal[i] = "\\n" THEN value[i] = "\n" ELSE value[i] = literal[i]

C16_VerbatimFields ==
    (/\ mode = "structured"
     /\ response.status = "fulfilled"
     /\ MatchesSchema(response.text))
    => /\ ~IsBlank(inputText)
       /\ Len(apiKey) > 0
       /\ result # null
       /\ DOMAIN result = Fields
       /\ \A f \in Fields :
             /\ result[f].type = "string"
             /\ IsDecodingOf(result[f].value, response.text.value.members[f].literal)

C16_Witness ==
    /\ mode = "structured"
    /\ response.status = "fulfilled"
    /\ MatchesSchema(response.text)
    /\ "note" \in DOMAIN response.text.value.members
    /\ result # null
    /\ result.correctedText = Str(<<"\n">>)
    /\ result.wordUsage = Str(<<>>)
    /\ result.explanation = Str(<<"A">>)

(* C17: once the in-memory credential is non-empty no step makes it empty,  *)
(* and a save with a blank (empty or whitespace-only) pending value changes *)
(* neither the persisted nor the in-memory credential and leaves the        *)
(* settings panel open.                                                     *)
C17_CredentialStaysSet ==
    /\ [][(Len(apiKey) > 0) => (Len(apiKey') > 0)]_vars
    /\ [][(handleSaveApiKey /\ IsBlank(tempApiKey))
            => (UNCHANGED <<storage, apiKey, tempApiKey>> /\ showSettings' = TRUE)]_vars

C17_Witness ==
    /\ apiKey = <<"a", "b", "c">>
    /\ showSettings
    /\ Len(tempApiKey) > 0
    /\ IsBlank(tempApiKey)
    /\ result # null

(* C18: once the startup load has run, the in-memory credential and the     *)
(* value under gemini_api_key agree in every reachable state; an absent     *)
(* value goes with the empty in-memory credential.                          *)
C18_MemoryMatchesStore ==
    mounted => \/ storage = {} /\ Len(apiKey) = 0
               \/ storage = {apiKey}

C18_Witness ==
    /\ mounted
    /\ storage = {<<"a", "b", "c">>}
    /\ apiKey = <<"a", "b", "c">>
    /\ showSettings
    /\ tempApiKey = <<" ">>

====
